---- MODULE Spec2Model ----
(***************************************************************************)
(* Order execution engine (src/src/server.ts): the HTTP ingestion handler, *)
(* the BullMQ worker's processor with its retries, the worker's "failed"   *)
(* handler, emitStatus (ledger UPDATE, then broadcast) and the websocket   *)
(* registry orderSockets.                                                  *)
(*                                                                         *)
(* Absent values are modelled by the value JavaScript's `x || null` maps   *)
(* to null: "" for strings, 0 for numbers.  Prices are integers: a quote's *)
(* price is in thousandths of the pair's base price, a fee in thousandths, *)
(* an executed price in millionths of the base price.                      *)
(***************************************************************************)
EXTENDS Integers, Sequences, FiniteSets, TLC

\* ---------------------------------------------------------------- bounds
NumSockets == 1
MaxDbFailures == 4
NumQueued == 11

\* ------------------------------------------------------ program constants
MaxAttempts == 3
BackoffDelay == 500
Concurrency == 10
RaydiumFee == 3
MeteoraFee == 2

\* order identifiers a websocket client may ask for, and the ones that POST
\* hands out (an identifier is a fresh UUID; a client may send any string)
OrderIds == {1, 2}
Orders == {1}
Sockets == 1..NumSockets

DexName == {"raydium", "meteora"}
OrderStatus == {"pending", "routing", "building", "submitted", "confirmed", "failed"}

\* prices a venue may quote (thousandths of the base price, inside each
\* venue's noise band) and slippage factors executeSwap may draw (thousandths)
RaydiumPrices == {998, 999}
MeteoraPrices == {997, 998}
SlippageFactors == {995, 1004}

VARIABLES
  ledger,       \* orders table: order id -> row (status "absent": no row)
  post,         \* position of POST /api/orders/execute for each order
  job,          \* the BullMQ job of each order and the processor's locals
  onFailed,     \* the running invocation of worker.on("failed") per order
  dbFailures,   \* ledger UPDATEs that were rejected so far
  lastStatus,   \* status of the last UPDATE emitStatus applied per order
  written,      \* statuses that UPDATEs of emitStatus stored so far, per order
  lastEvent,    \* payload of the last broadcast emitStatus ran per order
  orderSockets, \* the registry Map: order id -> set of sockets
  sock,         \* each websocket: readyState and the order it asked for
  inbox         \* last payload each websocket was sent

vars == <<ledger, post, job, onFailed, dbFailures, lastStatus, written,
          lastEvent, orderSockets, sock, inbox>>

\* ------------------------------------------------------------ emitStatus
NoRow == [status |-> "absent", dex |-> "", tx_hash |-> 0, error |-> "",
          executed_price |-> 0]

NoEvent == [status |-> "none", dex |-> "", txHash |-> 0, error |-> "",
            executedPrice |-> 0]

\* payload built by emitStatus(orderId, status, extra)
Payload(status, dex, txHash, error, executedPrice) ==
  [status |-> status, dex |-> dex, txHash |-> txHash, error |-> error,
   executedPrice |-> executedPrice]

\* mutant of CoalesceStr: the column is set to the parameter, null included
CoalesceStrOverwrite(new, old) == new

\* COALESCE($n, column) with $n = (extra?.field || null)
CoalesceStr(new, old) == IF new = "" THEN old ELSE new
CoalesceNum(new, old) == IF new = 0 THEN old ELSE new

\* the UPDATE of emitStatus applied to the row with id = orderId
ApplyUpdate(row, p) ==
  IF row.status = "absent" THEN row
  ELSE [status |-> p.status,
        dex |-> CoalesceStr(p.dex, row.dex),
        tx_hash |-> CoalesceNum(p.txHash, row.tx_hash),
        error |-> CoalesceStr(p.error, row.error),
        executed_price |-> CoalesceNum(p.executedPrice, row.executed_price)]

\* the UPDATE of one emitStatus call completes
DbWrite(o, p) ==
  /\ ledger' = [ledger EXCEPT ![o] = ApplyUpdate(@, p)]
  /\ lastStatus' = [lastStatus EXCEPT ![o] = p.status]
  /\ written' = [written EXCEPT ![o] =
       IF ledger[o].status = "absent" THEN @ ELSE @ \cup {p.status}]
  /\ UNCHANGED dbFailures

\* pgClient.query rejects: nothing is written and emitStatus throws
DbReject ==
  /\ dbFailures < MaxDbFailures
  /\ dbFailures' = dbFailures + 1
  /\ UNCHANGED <<ledger, lastStatus, written>>

\* mutant of Receivers: the loop sends without looking at readyState
ReceiversAnyState(o) ==
  IF o \in DOMAIN orderSockets THEN orderSockets[o] ELSE {}

\* sockets that the broadcast loop of emitStatus sends to
Receivers(o) ==
  IF o \in DOMAIN orderSockets
  THEN {s \in orderSockets[o] : sock[s].readyState = 1}
  ELSE {}

\* the broadcast loop of emitStatus
Broadcast(o, p) ==
  /\ inbox' = [s \in Sockets |-> IF s \in Receivers(o) THEN p ELSE inbox[s]]
  /\ lastEvent' = [lastEvent EXCEPT ![o] = p]

\* ------------------------------------------------------------------ Init
IdleJob == [state |-> "none", type |-> "", attemptsMade |-> 0, pc |-> "-",
            raydium |-> 0, meteora |-> 0, dex |-> "", quoted |-> 0,
            tx |-> 0, executed |-> 0, delay |-> 0]

IdleHandler == [pc |-> "idle", error |-> ""]

NewSocket == [readyState |-> 0, order |-> 0]

Init ==
  /\ ledger = [o \in OrderIds |-> NoRow]
  /\ post = [o \in OrderIds |-> "idle"]
  /\ job = [o \in OrderIds |-> IdleJob]
  /\ onFailed = [o \in OrderIds |-> IdleHandler]
  /\ dbFailures = 0
  /\ lastStatus = [o \in OrderIds |-> "none"]
  /\ written = [o \in OrderIds |-> {}]
  /\ lastEvent = [o \in OrderIds |-> NoEvent]
  /\ orderSockets = << >>
  /\ sock = [s \in Sockets |-> NewSocket]
  /\ inbox = [s \in Sockets |-> NoEvent]

\* --------------------------------------------- POST /api/orders/execute
\* INSERT the pending row, sAdd, orderQueue.add, then call emitStatus: the
\* handler is now waiting for the UPDATE of emitStatus(orderId, "pending").
\* Order ids are fresh UUIDs; the model hands them out in increasing order.
PostExecute(o) ==
  /\ post[o] = "idle"
  /\ \A q \in Orders : q < o => post[q] # "idle"
  /\ ledger' = [ledger EXCEPT ![o] = [NoRow EXCEPT !.status = "pending"]]
  /\ job' = [job EXCEPT ![o] = [IdleJob EXCEPT !.state = "waiting",
                                                !.type = "market"]]
  /\ post' = [post EXCEPT ![o] = "emit"]
  /\ UNCHANGED <<onFailed, dbFailures, lastStatus, written, lastEvent, orderSockets,
                 sock, inbox>>

\* the UPDATE of emitStatus(orderId, "pending") completes or is rejected
\* (the handler then throws; the job stays queued)
PostPendingWrite(o) ==
  /\ post[o] = "emit"
  /\ \/ /\ DbWrite(o, Payload("pending", "", 0, "", 0))
        /\ post' = [post EXCEPT ![o] = "sent"]
     \/ /\ DbReject
        /\ post' = [post EXCEPT ![o] = "error"]
  /\ UNCHANGED <<job, onFailed, lastEvent, orderSockets, sock, inbox>>

\* emitStatus(orderId, "pending") broadcasts and the handler replies 200
PostPendingSend(o) ==
  /\ post[o] = "sent"
  /\ Broadcast(o, Payload("pending", "", 0, "", 0))
  /\ post' = [post EXCEPT ![o] = "done"]
  /\ UNCHANGED <<ledger, job, onFailed, dbFailures, lastStatus, written, orderSockets,
                 sock>>

\* ------------------------------------------------------- queue and retry
\* exponential backoff of BullMQ: delay * 2^(attemptsMade - 1)
Backoff(attemptsMade) == BackoffDelay * 2 ^ (attemptsMade - 1)

Active == {o \in DOMAIN job : job[o].state = "active"}

\* mutant of RetryAllowed: one retry too many
RetryAllowedOffByOne(made) == made <= MaxAttempts

\* may the job be retried after `made` attempts (attempts: 3)
RetryAllowed(made) == made < MaxAttempts

\* err.message || "unknown_error"
ErrMessage(msg) == IF msg = "" THEN "unknown_error" ELSE msg

\* does the worker call the "failed" listener for this failed attempt:
\* BullMQ emits "failed" whenever the processor throws, retried or not
EmitsFailed(made) == TRUE

\* the processor threw: BullMQ moves the job to delayed (retry) or failed,
\* then emits "failed", which starts the listener's emitStatus(.., "failed")
FailAttempt(o, msg) ==
  LET made == job[o].attemptsMade + 1 IN
  /\ job' = [job EXCEPT ![o] =
       [@ EXCEPT !.state = IF RetryAllowed(made) THEN "delayed" ELSE "failed",
                 !.attemptsMade = made, !.pc = "-", !.raydium = 0,
                 !.meteora = 0, !.dex = "", !.quoted = 0, !.tx = 0,
                 !.executed = 0,
                 !.delay = IF RetryAllowed(made) THEN Backoff(made) ELSE 0]]
  /\ onFailed' = [onFailed EXCEPT ![o] =
       IF EmitsFailed(made)
       THEN [pc |-> "write", error |-> ErrMessage(msg)]
       ELSE IdleHandler]

\* mutant of StartAttempt: a retry resumes after the routing status
StartAttemptResume(o) ==
  /\ job[o].state \in {"waiting", "delayed"}
  /\ onFailed[o].pc = "idle"
  /\ Cardinality(Active) < Concurrency
  /\ job' = [job EXCEPT ![o] =
       [@ EXCEPT !.state = "active", !.delay = 0,
                 !.pc = IF job[o].attemptsMade > 0 THEN "quotes"
                        ELSE "routing_w"]]
  /\ UNCHANGED <<ledger, post, onFailed, dbFailures, lastStatus, written, lastEvent,
                 orderSockets, sock, inbox>>

\* mutant of StartAttempt: the worker takes a job whatever the number of
\* running processors
StartAttemptNoLimit(o) ==
  /\ job[o].state \in {"waiting", "delayed"}
  /\ onFailed[o].pc = "idle"
  /\ job' = [job EXCEPT ![o] = [@ EXCEPT !.state = "active",
                                        !.pc = "routing_w", !.delay = 0]]
  /\ UNCHANGED <<ledger, post, onFailed, dbFailures, lastStatus, written, lastEvent,
                 orderSockets, sock, inbox>>

\* a worker slot takes the job (first run, or after its backoff delay) and
\* the processor calls emitStatus(orderId, "routing").  The listener of the
\* previous failure issued its query at least the backoff delay earlier on
\* the same pg client, which runs queries in order.
StartAttempt(o) ==
  /\ job[o].state \in {"waiting", "delayed"}
  /\ onFailed[o].pc = "idle"
  /\ Cardinality(Active) < Concurrency
  /\ job' = [job EXCEPT ![o] = [@ EXCEPT !.state = "active",
                                        !.pc = "routing_w", !.delay = 0]]
  /\ UNCHANGED <<ledger, post, onFailed, dbFailures, lastStatus, written, lastEvent,
                 orderSockets, sock, inbox>>

\* ------------------------------------------------------ worker processor
SetPc(o, pc) == job' = [job EXCEPT ![o] = [@ EXCEPT !.pc = pc]]

AtPc(o, pc) == job[o].state = "active" /\ job[o].pc = pc

\* message of the error pgClient.query rejects with
DbError == "db_error"

\* mutant of WorkerWrite: a rejected UPDATE is swallowed and emitStatus goes
\* on to broadcast
WorkerWriteSwallow(o, p, next) ==
  /\ \/ /\ DbWrite(o, p)
        /\ SetPc(o, next)
        /\ UNCHANGED onFailed
     \/ /\ DbReject
        /\ SetPc(o, next)
        /\ UNCHANGED onFailed
  /\ UNCHANGED <<post, lastEvent, orderSockets, sock, inbox>>

\* an awaited emitStatus inside the processor: its UPDATE completes, or is
\* rejected and the processor throws
WorkerWrite(o, p, next) ==
  /\ \/ /\ DbWrite(o, p)
        /\ SetPc(o, next)
        /\ UNCHANGED onFailed
     \/ /\ DbReject
        /\ FailAttempt(o, DbError)
  /\ UNCHANGED <<post, lastEvent, orderSockets, sock, inbox>>

\* await emitStatus(orderId, "routing"): the UPDATE
RoutingWrite(o) ==
  /\ AtPc(o, "routing_w")
  /\ WorkerWrite(o, Payload("routing", "", 0, "", 0), "routing_s")

\* emitStatus(orderId, "routing") broadcasts; both quotes are requested
RoutingSend(o) ==
  /\ AtPc(o, "routing_s")
  /\ Broadcast(o, Payload("routing", "", 0, "", 0))
  /\ SetPc(o, "quotes")
  /\ UNCHANGED <<ledger, post, onFailed, dbFailures, lastStatus, written,
                 orderSockets, sock>>

\* quote.price * (1 - quote.fee), scaled by 1000
Effective(quote) == quote.price * (1000 - quote.fee)

\* mutant of BestDex: a tie goes to meteora
BestDexTieMeteora(raydiumQuote, meteoraQuote) ==
  IF Effective(meteoraQuote) >= Effective(raydiumQuote) THEN "meteora"
  ELSE "raydium"

\* bestDex: meteora only when its effective price is strictly greater
BestDex(raydiumQuote, meteoraQuote) ==
  IF Effective(meteoraQuote) > Effective(raydiumQuote) THEN "meteora"
  ELSE "raydium"

\* bestQuote: the quote of bestDex
BestQuote(raydiumQuote, meteoraQuote) ==
  IF BestDex(raydiumQuote, meteoraQuote) = "meteora" THEN meteoraQuote
  ELSE raydiumQuote

\* getRaydiumQuote / getMeteorQuote: a price in the venue's band and its fee
RaydiumQuotes == {[price |-> p, fee |-> RaydiumFee] : p \in RaydiumPrices}
MeteoraQuotes == {[price |-> p, fee |-> MeteoraFee] : p \in MeteoraPrices}

\* Promise.all resolves with both quotes; the venue is chosen and
\* emitStatus(orderId, "building", {dex: bestDex}) is called
Quotes(o) ==
  /\ AtPc(o, "quotes")
  /\ \E rq \in RaydiumQuotes, mq \in MeteoraQuotes :
       job' = [job EXCEPT ![o] = [@ EXCEPT !.pc = "building_w",
                                          !.raydium = rq.price,
                                          !.meteora = mq.price,
                                          !.dex = BestDex(rq, mq),
                                          !.quoted = BestQuote(rq, mq).price]]
  /\ UNCHANGED <<ledger, post, onFailed, dbFailures, lastStatus, written, lastEvent,
                 orderSockets, sock, inbox>>

\* await emitStatus(orderId, "building", {dex: bestDex}): the UPDATE
BuildingWrite(o) ==
  /\ AtPc(o, "building_w")
  /\ WorkerWrite(o, Payload("building", job[o].dex, 0, "", 0), "building_s")

\* mutant of BuildingSend: the order type is not checked
BuildingSendAnyType(o) ==
  /\ AtPc(o, "building_s")
  /\ Broadcast(o, Payload("building", job[o].dex, 0, "", 0))
  /\ SetPc(o, "submitted_w") /\ UNCHANGED onFailed
  /\ UNCHANGED <<ledger, post, dbFailures, lastStatus, written, orderSockets, sock>>

\* emitStatus(.., "building") broadcasts; then the order type is checked and
\* emitStatus(orderId, "submitted", {dex: bestDex}) is called
BuildingSend(o) ==
  /\ AtPc(o, "building_s")
  /\ Broadcast(o, Payload("building", job[o].dex, 0, "", 0))
  /\ IF job[o].type # "market"
     THEN FailAttempt(o, "Unsupported order type")
     ELSE SetPc(o, "submitted_w") /\ UNCHANGED onFailed
  /\ UNCHANGED <<ledger, post, dbFailures, lastStatus, written, orderSockets, sock>>

\* await emitStatus(orderId, "submitted", {dex: bestDex}): the UPDATE
SubmittedWrite(o) ==
  /\ AtPc(o, "submitted_w")
  /\ WorkerWrite(o, Payload("submitted", job[o].dex, 0, "", 0), "submitted_s")

\* emitStatus(.., "submitted") broadcasts; executeSwap is called with
\* bestQuote.price
SubmittedSend(o) ==
  /\ AtPc(o, "submitted_s")
  /\ Broadcast(o, Payload("submitted", job[o].dex, 0, "", 0))
  /\ SetPc(o, "swap")
  /\ UNCHANGED <<ledger, post, onFailed, dbFailures, lastStatus, written,
                 orderSockets, sock>>

\* mutant of ExecutedPrices: the slippage factor is drawn from 0.985 on
ExecutedPricesWide(quotedPrice) == {quotedPrice * f : f \in {985, 1004}}

\* executeSwap: executedPrice = quotedPrice * slippageFactor (millionths)
ExecutedPrices(quotedPrice) == {quotedPrice * f : f \in SlippageFactors}

\* generateMockTxHash: a fresh identifier for each execution
TxHash(o, attemptsMade) == (o - 1) * MaxAttempts + attemptsMade + 1

\* mutant of SlippageTooHigh: a slippage of exactly 1% is refused
SlippageTooHighInclusive(quotedPrice, executedPrice) ==
  LET quoted == quotedPrice * 1000
      diff == IF executedPrice >= quoted THEN executedPrice - quoted
              ELSE quoted - executedPrice
  IN diff * 100 >= quoted

\* relativeDiff > allowedSlippage, with allowedSlippage = 0.01:
\* |executed - quoted| / quoted > 1/100  (executed in millionths)
SlippageTooHigh(quotedPrice, executedPrice) ==
  LET quoted == quotedPrice * 1000
      diff == IF executedPrice >= quoted THEN executedPrice - quoted
              ELSE quoted - executedPrice
  IN diff * 100 > quoted

\* await dexRouter.executeSwap(bestDex, job.data, bestQuote.price) returns
\* swapResult: a fresh txHash and one of the prices the execution step offers
SwapWith(o, prices) ==
  /\ AtPc(o, "swap")
  /\ \E r \in prices :
       job' = [job EXCEPT ![o] =
                 [@ EXCEPT !.pc = "check", !.executed = r,
                           !.tx = TxHash(o, job[o].attemptsMade)]]
  /\ UNCHANGED <<ledger, post, onFailed, dbFailures, lastStatus, written,
                 lastEvent, orderSockets, sock, inbox>>

\* the execution step of MockDexRouter
Swap(o) == SwapWith(o, ExecutedPrices(job[o].quoted))

\* the slippage check on swapResult.executedPrice throws, or
\* emitStatus(orderId, "confirmed", {dex, txHash, executedPrice}) is called
CheckSlippage(o) ==
  /\ AtPc(o, "check")
  /\ IF SlippageTooHigh(job[o].quoted, job[o].executed)
     THEN FailAttempt(o, "Slippage too high")
     ELSE SetPc(o, "confirmed_w") /\ UNCHANGED onFailed
  /\ UNCHANGED <<ledger, post, dbFailures, lastStatus, written, lastEvent,
                 orderSockets, sock, inbox>>

ConfirmedPayload(o) ==
  Payload("confirmed", job[o].dex, job[o].tx, "", job[o].executed)

\* await emitStatus(orderId, "confirmed", ..): the UPDATE
ConfirmedWrite(o) ==
  /\ AtPc(o, "confirmed_w")
  /\ WorkerWrite(o, ConfirmedPayload(o), "confirmed_s")

\* emitStatus(.., "confirmed") broadcasts and the processor returns: the job
\* completes (removeOnComplete) and is never run again
ConfirmedSend(o) ==
  /\ AtPc(o, "confirmed_s")
  /\ Broadcast(o, ConfirmedPayload(o))
  /\ job' = [job EXCEPT ![o] = [@ EXCEPT !.state = "completed", !.pc = "-"]]
  /\ UNCHANGED <<ledger, post, onFailed, dbFailures, lastStatus, written,
                 orderSockets, sock>>

\* -------------------------------------------------- worker.on("failed")
FailedPayload(o) == Payload("failed", "", 0, onFailed[o].error, 0)

\* await emitStatus(orderId, "failed", {error}): the UPDATE; a rejection is
\* not handled by the listener and ends it
FailedWrite(o) ==
  /\ onFailed[o].pc = "write"
  /\ \/ /\ DbWrite(o, FailedPayload(o))
        /\ onFailed' = [onFailed EXCEPT ![o] = [@ EXCEPT !.pc = "send"]]
     \/ /\ DbReject
        /\ onFailed' = [onFailed EXCEPT ![o] = IdleHandler]
  /\ UNCHANGED <<post, job, lastEvent, orderSockets, sock, inbox>>

\* emitStatus(orderId, "failed", {error}) broadcasts
FailedSend(o) ==
  /\ onFailed[o].pc = "send"
  /\ Broadcast(o, FailedPayload(o))
  /\ onFailed' = [onFailed EXCEPT ![o] = IdleHandler]
  /\ UNCHANGED <<ledger, post, job, dbFailures, lastStatus, written, orderSockets,
                 sock>>

\* ------------------------------------------- GET /api/orders/execute/ws
\* the websocket route: the socket, now described by rec, is added to the
\* set of order o, which is created when the registry has none
Register(s, o, rec) ==
  /\ sock[s].readyState = 0
  /\ sock' = [sock EXCEPT ![s] = rec]
  /\ orderSockets' =
       IF o \in DOMAIN orderSockets
       THEN [orderSockets EXCEPT ![o] = @ \cup {s}]
       ELSE [k \in DOMAIN orderSockets \cup {o} |->
               IF k = o THEN {s} ELSE orderSockets[k]]
  /\ UNCHANGED <<ledger, post, job, onFailed, dbFailures, lastStatus, written,
                 lastEvent, inbox>>

\* a websocket connects with ?orderId=o and is added to the registry
Subscribe(s, o) == Register(s, o, [readyState |-> 1, order |-> o])

\* the connection goes down: readyState leaves OPEN; the "close" event has
\* not been delivered yet
SocketClose(s) ==
  /\ sock[s].readyState = 1
  /\ sock' = [sock EXCEPT ![s] = [@ EXCEPT !.readyState = 3]]
  /\ UNCHANGED <<ledger, post, job, onFailed, dbFailures, lastStatus, written,
                 lastEvent, orderSockets, inbox>>

\* mutant of OnClose: the emptied set is left in the registry
OnCloseKeepEmpty(s) ==
  LET o == sock[s].order IN
  /\ sock[s].readyState = 3
  /\ o \in DOMAIN orderSockets
  /\ s \in orderSockets[o]
  /\ orderSockets' = [orderSockets EXCEPT ![o] = @ \ {s}]
  /\ UNCHANGED <<ledger, post, job, onFailed, dbFailures, lastStatus, written,
                 lastEvent, sock, inbox>>

\* socket.on("close"): remove the socket; delete the entry when it is empty
OnClose(s) ==
  LET o == sock[s].order IN
  /\ sock[s].readyState = 3
  /\ o \in DOMAIN orderSockets
  /\ s \in orderSockets[o]
  /\ orderSockets' =
       IF orderSockets[o] \ {s} = {}
       THEN [k \in DOMAIN orderSockets \ {o} |-> orderSockets[k]]
       ELSE [orderSockets EXCEPT ![o] = @ \ {s}]
  /\ UNCHANGED <<ledger, post, job, onFailed, dbFailures, lastStatus, written,
                 lastEvent, sock, inbox>>

\* ------------------------------------------------------------------ Next
\* a step of the ingestion handler, of the processor or of the listener
OrderStep(o) ==
  \/ PostExecute(o)
  \/ PostPendingWrite(o)
  \/ PostPendingSend(o)
  \/ RoutingWrite(o)
  \/ RoutingSend(o)
  \/ Quotes(o)
  \/ BuildingWrite(o)
  \/ BuildingSend(o)
  \/ SubmittedWrite(o)
  \/ SubmittedSend(o)
  \/ Swap(o)
  \/ CheckSlippage(o)
  \/ ConfirmedWrite(o)
  \/ ConfirmedSend(o)
  \/ FailedWrite(o)
  \/ FailedSend(o)

SocketStep ==
  \/ \E s \in Sockets, o \in OrderIds : Subscribe(s, o)
  \/ \E s \in Sockets : SocketClose(s)
  \/ \E s \in Sockets : OnClose(s)

\* the worker may take a job as soon as orderQueue.add has stored it, while
\* the ingestion handler is still inside emitStatus(orderId, "pending")
Next ==
  \/ \E o \in Orders : OrderStep(o)
  \/ \E o \in Orders : StartAttempt(o)
  \/ SocketStep

Spec == Init /\ [][Next]_vars

\* the same program when every job is taken only after the ingestion handler
\* has returned: the schedules of Spec in which POST never overlaps the worker
SerialStart(o) ==
  /\ post[o] \in {"done", "error"}
  /\ StartAttempt(o)

SerialNext ==
  \/ \E o \in Orders : OrderStep(o)
  \/ \E o \in Orders : SerialStart(o)
  \/ SocketStep

SerialSpec == Init /\ [][SerialNext]_vars

\* ------------------------------------------------------- the worker pool
\* the orders whose jobs wait in the queue "orders" when the worker starts
QueuedOrders == 1..NumQueued

\* the state after POST has returned for every queued order: a pending row,
\* a pending event and a waiting job each, and no worker slot taken yet
PoolInit ==
  /\ ledger = [o \in QueuedOrders |-> [NoRow EXCEPT !.status = "pending"]]
  /\ post = [o \in QueuedOrders |-> "done"]
  /\ job = [o \in QueuedOrders |->
              [IdleJob EXCEPT !.state = "waiting", !.type = "market"]]
  /\ onFailed = [o \in QueuedOrders |-> IdleHandler]
  /\ dbFailures = 0
  /\ lastStatus = [o \in QueuedOrders |-> "pending"]
  /\ written = [o \in QueuedOrders |-> {"pending"}]
  /\ lastEvent = [o \in QueuedOrders |-> Payload("pending", "", 0, "", 0)]
  /\ orderSockets = << >>
  /\ sock = [s \in Sockets |-> NewSocket]
  /\ inbox = [s \in Sockets |-> NoEvent]

\* the processor of a running job returns and the job leaves its slot; the
\* steps between the start of an attempt and its return are those of Spec:
\* none of them takes or frees a slot, and they are left out here
Return(o) ==
  /\ job[o].state = "active"
  /\ job' = [job EXCEPT ![o] = [@ EXCEPT !.state = "completed", !.pc = "-"]]
  /\ UNCHANGED <<ledger, post, onFailed, dbFailures, lastStatus, written,
                 lastEvent, orderSockets, sock, inbox>>

PoolNext ==
  \/ \E o \in QueuedOrders : StartAttempt(o)
  \/ \E o \in QueuedOrders : Return(o)

PoolSpec == PoolInit /\ [][PoolNext]_vars

\* ---------------------------------------------------- a restarted server
\* the orders table outlives the process (CREATE TABLE IF NOT EXISTS): the
\* row of an order that an earlier run of the server confirmed
OldRow == [status |-> "confirmed", dex |-> "meteora", tx_hash |-> 9,
           error |-> "", executed_price |-> 998 * 995]

\* the state after construction when the table holds the row of order 2
RestartInit ==
  /\ ledger = [o \in OrderIds |-> IF o \in Orders THEN NoRow ELSE OldRow]
  /\ post = [o \in OrderIds |-> "idle"]
  /\ job = [o \in OrderIds |-> IdleJob]
  /\ onFailed = [o \in OrderIds |-> IdleHandler]
  /\ dbFailures = 0
  /\ lastStatus = [o \in OrderIds |-> "none"]
  /\ written = [o \in OrderIds |-> {}]
  /\ lastEvent = [o \in OrderIds |-> NoEvent]
  /\ orderSockets = << >>
  /\ sock = [s \in Sockets |-> NewSocket]
  /\ inbox = [s \in Sockets |-> NoEvent]

RestartSpec == RestartInit /\ [][SerialNext]_vars

\* ------------------------------------------------ observers with history
\* Subscribe, recording in the socket (history, not program state) whether
\* the order's row already held confirmed or failed when it subscribed
SubscribeAt(s, o) ==
  Register(s, o, [readyState |-> 1, order |-> o,
                  late |-> ledger[o].status \in {"confirmed", "failed"}])

\* the program of SerialSpec with that history
ObserverNext ==
  \/ \E o \in Orders : OrderStep(o)
  \/ \E o \in Orders : SerialStart(o)
  \/ \E s \in Sockets, o \in OrderIds : SubscribeAt(s, o)
  \/ \E s \in Sockets : SocketClose(s)
  \/ \E s \in Sockets : OnClose(s)

ObserverSpec == Init /\ [][ObserverNext]_vars

\* --------------------------------------------- the worker with a stub router
\* prices an execution step other than MockDexRouter.executeSwap may return
\* for a quoted price (millionths): 1.2% and 0.8% off, exactly 1% off on
\* either side, and one millionth beyond 1% on either side
StubPrices(quotedPrice) ==
  {quotedPrice * 988, quotedPrice * 990 - 1, quotedPrice * 990,
   quotedPrice * 1008, quotedPrice * 1010, quotedPrice * 1010 + 1,
   quotedPrice * 1012}

\* await dexRouter.executeSwap(..) returns with a price of the stub
StubSwap(o) == SwapWith(o, StubPrices(job[o].quoted))

StubStep(o) ==
  \/ StubSwap(o)

\* the program of SerialSpec whose worker also runs against the stub
StubNext ==
  \/ SerialNext
  \/ \E o \in Orders : StubStep(o)

StubSpec == Init /\ [][StubNext]_vars

\* ------------------------------------- the worker when venue calls reject
\* message of the error a rejected quote call of venue v carries
QuoteError(v) == IF v = "raydium" THEN "raydium_quote_error"
                 ELSE "meteora_quote_error"

\* mutant of QuotesReject: when one venue rejects, the other venue is chosen
\* on its own
QuotesRejectFallback(o) ==
  /\ AtPc(o, "quotes")
  /\ \E failing \in (SUBSET DexName) \ {{}} :
       IF failing = DexName
       THEN \E v \in failing : FailAttempt(o, QuoteError(v))
       ELSE /\ \E rq \in RaydiumQuotes, mq \in MeteoraQuotes :
                 job' = [job EXCEPT ![o] =
                   [@ EXCEPT !.pc = "building_w",
                     !.raydium = IF "raydium" \in failing THEN 0 ELSE rq.price,
                     !.meteora = IF "meteora" \in failing THEN 0 ELSE mq.price,
                     !.dex = IF "raydium" \in failing THEN "meteora"
                             ELSE "raydium",
                     !.quoted = IF "raydium" \in failing THEN mq.price
                                ELSE rq.price]]
            /\ UNCHANGED onFailed
  /\ UNCHANGED <<ledger, post, dbFailures, lastStatus, written, lastEvent,
                 orderSockets, sock, inbox>>

\* Promise.all([getRaydiumQuote(..), getMeteorQuote(..)]) rejects: at least
\* one of the two calls rejected, and the processor throws the error of the
\* call that rejected first
QuotesReject(o) ==
  /\ AtPc(o, "quotes")
  /\ \E failing \in (SUBSET DexName) \ {{}} :
       \E v \in failing : FailAttempt(o, QuoteError(v))
  /\ UNCHANGED <<ledger, post, dbFailures, lastStatus, written, lastEvent,
                 orderSockets, sock, inbox>>

\* the program of SerialSpec with a router whose quote calls may reject
VenueNext ==
  \/ SerialNext
  \/ \E o \in Orders : QuotesReject(o)

VenueSpec == Init /\ [][VenueNext]_vars

\* ------------------------------------ jobs of other producers of the queue
\* values of job.data.type other than "market": OrderType has no other
\* member and POST always sets "market", so such a job is one that another
\* producer added to the queue "orders"
OtherTypes == {"limit"}

\* another producer adds a job for order o to the queue "orders", having
\* stored a pending row for it or not; no ingestion handler runs for o
ForeignAdd(o) ==
  /\ post[o] = "idle"
  /\ \E t \in OtherTypes :
       job' = [job EXCEPT ![o] = [IdleJob EXCEPT !.state = "waiting",
                                                !.type = t]]
  /\ \E row \in {NoRow, [NoRow EXCEPT !.status = "pending"]} :
       ledger' = [ledger EXCEPT ![o] = row]
  /\ post' = [post EXCEPT ![o] = "done"]
  /\ UNCHANGED <<onFailed, dbFailures, lastStatus, written, lastEvent,
                 orderSockets, sock, inbox>>

\* the program of SerialSpec whose queue other producers write to
ForeignNext ==
  \/ SerialNext
  \/ \E o \in Orders : ForeignAdd(o)

ForeignSpec == Init /\ [][ForeignNext]_vars

\* ================================================================ claims
Terminal == {"confirmed", "failed"}
NonTerminal == {"pending", "routing", "building", "submitted"}

WritePcs == {"routing_w", "building_w", "submitted_w", "confirmed_w"}
SendPcs == {"routing_s", "building_s", "submitted_s", "confirmed_s"}

\* this step completes the UPDATE of an emitStatus call for order o
Wrote(o) ==
  \/ post[o] = "emit" /\ post'[o] = "sent"
  \/ job[o].pc \in WritePcs /\ job'[o].pc \in SendPcs
  \/ onFailed[o].pc = "write" /\ onFailed'[o].pc = "send"

\* this step runs the broadcast loop of an emitStatus call for order o
Sent(o) ==
  \/ post[o] = "sent" /\ post'[o] = "done"
  \/ job[o].pc \in SendPcs /\ job'[o].pc # job[o].pc
  \/ onFailed[o].pc = "send" /\ onFailed'[o].pc # "send"
  \/ lastEvent'[o] # lastEvent[o]

\* the edges of the order state machine; "none" stands for no status yet
Edge(from, to) ==
  \/ <<from, to>> \in {<<"none", "pending">>, <<"pending", "routing">>,
                       <<"routing", "building">>, <<"building", "submitted">>,
                       <<"submitted", "confirmed">>}
  \/ from \in NonTerminal /\ to = "failed"

\* nothing is running or queued for order o any more
Quiescent(o) ==
  /\ post[o] \in {"done", "error"}
  /\ job[o].state \in {"completed", "failed"}
  /\ onFailed[o].pc = "idle"

\* C1: for every order, the statuses that emitStatus persists, and those it
\* broadcasts, follow pending, routing, building, submitted, confirmed with
\* at most one final failed from a non-terminal status: every UPDATE and
\* every broadcast moves along one edge of the state machine, so no status
\* repeats, none is skipped and none moves backward.
C1_StatusSequence ==
  [][\A o \in OrderIds :
       /\ Wrote(o) => Edge(lastStatus[o], lastStatus'[o])
       /\ Sent(o) => Edge(lastEvent[o].status, lastEvent'[o].status)]_vars

\* C2: once emitStatus has written confirmed or failed for an order, no later
\* emitStatus call changes the order's ledger row, and once a confirmed or
\* failed event was broadcast no other event is broadcast for the order (so
\* no order has both a confirmed and a failed event).
C2_TerminalOnce ==
  [][\A o \in OrderIds :
       /\ lastStatus[o] \in Terminal => ledger'[o] = ledger[o]
       /\ lastEvent[o].status \in Terminal => ~Sent(o)]_vars

\* C3: failed is persisted and broadcast only after the final (third)
\* attempt has failed: while fewer than three attempts have failed, the
\* ledger status is not failed and no failed event has been broadcast.
C3_FailedOnlyAfterFinalAttempt ==
  \A o \in OrderIds :
    (ledger[o].status = "failed" \/ lastEvent[o].status = "failed")
      => job[o].attemptsMade = MaxAttempts

C5_EveryOrderTerminates ==
  \A o \in OrderIds :
    Quiescent(o) => /\ ledger[o].status \in Terminal
                    /\ lastEvent[o].status \in Terminal

\* the fields an event carries are the ones stored in the row
FieldsDurable(row, p) ==
  /\ p.dex # "" => row.dex = p.dex
  /\ p.txHash # 0 => row.tx_hash = p.txHash
  /\ p.error # "" => row.error = p.error
  /\ p.executedPrice # 0 => row.executed_price = p.executedPrice

\* the emitStatus calls for order o whose UPDATE is done and whose broadcast
\* is still to come
SendPending(o) ==
  {c \in {"post", "worker", "listener"} :
     \/ c = "post" /\ post[o] = "sent"
     \/ c = "worker" /\ job[o].pc \in SendPcs
     \/ c = "listener" /\ onFailed[o].pc = "send"}

\* C6: emitStatus broadcasts an event only after its UPDATE completed: when
\* an event with status s is broadcast for order o, or reaches a websocket,
\* an UPDATE has stored s for o and the row holds the fields the event
\* carries; a rejected UPDATE sends nothing and leads to no broadcast.
C6_WriteBeforeSend ==
  [][/\ \A o \in OrderIds :
          /\ Sent(o) => /\ lastEvent'[o].status \in written[o]
                        /\ FieldsDurable(ledger[o], lastEvent'[o])
          /\ dbFailures' # dbFailures
               => ~Sent(o) /\ SendPending(o)' \subseteq SendPending(o)
     /\ \A s \in Sockets :
          inbox'[s] # inbox[s]
            => /\ sock[s].order \in OrderIds
               /\ inbox'[s].status \in written[sock[s].order]
               /\ FieldsDurable(ledger[sock[s].order], inbox'[s])
     /\ dbFailures' # dbFailures => inbox' = inbox]_vars

\* C6 witness: after an UPDATE was rejected, a websocket holds a confirmed
\* event
C6_Witness ==
  \E s \in Sockets : inbox[s].status = "confirmed" /\ dbFailures > 0

\* the ledger row that holds exactly the values of event e
RowOf(e) ==
  [status |-> e.status, dex |-> e.dex, tx_hash |-> e.txHash,
   error |-> e.error, executed_price |-> e.executedPrice]

\* C7: when a confirmed or failed event is broadcast for an order, the
\* order's ledger row holds exactly the values of that event: the same
\* status, dex (none when the event carries none), txHash, error and
\* executedPrice.
C7_LedgerMatchesTerminalEvent ==
  [][\A o \in OrderIds :
       (Sent(o) /\ lastEvent'[o].status \in Terminal)
         => ledger'[o] = RowOf(lastEvent'[o])]_vars

\* C8: once dex, tx_hash or executed_price of an order's row holds a value,
\* no later UPDATE replaces it with a different one.
C8_FieldsNeverOverwritten ==
  [][\A o \in OrderIds :
       /\ ledger[o].dex # "" => ledger'[o].dex = ledger[o].dex
       /\ ledger[o].tx_hash # 0 => ledger'[o].tx_hash = ledger[o].tx_hash
       /\ ledger[o].executed_price # 0
            => ledger'[o].executed_price = ledger[o].executed_price]_vars

\* C9: every ledger row satisfies the status/field relation: pending has no
\* dex, tx_hash, executed_price or error; building, submitted and confirmed
\* have a dex; confirmed has tx_hash and executed_price; executed_price is
\* set only with confirmed; failed has an error; error is set only with
\* failed.
C9_StatusFieldRelation ==
  \A o \in OrderIds :
    LET row == ledger[o] IN
    row.status # "absent" =>
      /\ row.status = "pending"
           => row.dex = "" /\ row.tx_hash = 0 /\ row.executed_price = 0
              /\ row.error = ""
      /\ row.status \in {"building", "submitted", "confirmed"} => row.dex # ""
      /\ row.status = "confirmed"
           => row.tx_hash # 0 /\ row.executed_price # 0
      /\ row.executed_price # 0 => row.status = "confirmed"
      /\ row.status = "failed" => row.error # ""
      /\ row.error # "" => row.status = "failed"

\* the processor holds both quotes and has chosen a venue
Routed(o) ==
  job[o].state = "active"
    /\ job[o].pc \in {"building_w", "building_s", "submitted_w",
                      "submitted_s", "swap", "check", "confirmed_w",
                      "confirmed_s"}

\* C10: for every pair of quotes, with effective = price * (1 - fee) (fee
\* 0.003 for raydium, 0.002 for meteora), the venue with the strictly
\* greater effective price is chosen and raydium on a tie; the price given
\* to executeSwap and used by the slippage check, and the dex of the events,
\* are the chosen venue's.
C10_RoutingChoosesBestVenue ==
  \A o \in OrderIds :
    Routed(o) =>
      LET r == job[o].raydium
          m == job[o].meteora
          chosen == IF m * 998 > r * 997 THEN "meteora" ELSE "raydium"
          price == IF chosen = "meteora" THEN m ELSE r
      IN /\ r \in RaydiumPrices /\ m \in MeteoraPrices
         /\ job[o].dex = chosen
         /\ job[o].quoted = price
         /\ job[o].pc \in {"building_s", "submitted_w", "submitted_s",
                           "swap", "check", "confirmed_w", "confirmed_s"}
              => ledger[o].dex = chosen
         /\ job[o].pc \in {"confirmed_w", "confirmed_s"}
              => /\ \E f \in SlippageFactors : job[o].executed = price * f
                 /\ job[o].executed * 100 <= price * 1000 * 101
                 /\ job[o].executed * 100 >= price * 1000 * 99

\* C10 witness: both effective prices are equal and the order was executed
\* on raydium
C10_Witness ==
  \E o \in OrderIds :
    /\ job[o].pc = "confirmed_s"
    /\ job[o].raydium * 997 = job[o].meteora * 998
    /\ job[o].dex = "raydium"

\* C11: when the slippage check runs on a realized price r for a quoted
\* price q > 0, the attempt throws the slippage error, with no confirmed
\* call, exactly when |r - q| / q > 1%; when |r - q| / q <= 1% (exactly 1%
\* included) the processor calls emitStatus confirmed with r and the
\* txHash of the execution, and every confirmed event carries that r and
\* txHash and is within 1% of the quoted price.
C11_SlippageBoundary ==
  [][\A o \in OrderIds :
       LET q == job[o].quoted * 1000
           r == job[o].executed
           d == IF r >= q THEN r - q ELSE q - r
       IN /\ (job[o].pc = "check" /\ job'[o].pc # "check")
               => /\ q > 0
                  /\ d * 100 > q
                       => /\ job'[o].state \in {"delayed", "failed"}
                          /\ onFailed'[o].pc = "write"
                          /\ onFailed'[o].error = "Slippage too high"
                          /\ ledger'[o] = ledger[o]
                          /\ lastEvent'[o] = lastEvent[o]
                  /\ d * 100 <= q
                       => /\ job'[o].state = "active"
                          /\ job'[o].pc = "confirmed_w"
                          /\ ConfirmedPayload(o)'.executedPrice = r
                          /\ ConfirmedPayload(o)'.txHash = job[o].tx
                          /\ job[o].tx # 0
                          /\ onFailed'[o] = onFailed[o]
          /\ (Sent(o) /\ lastEvent'[o].status = "confirmed")
               => /\ lastEvent'[o].executedPrice = r
                  /\ lastEvent'[o].txHash = job[o].tx
                  /\ d * 100 <= q]_vars

\* C11 witness: after an attempt failed on slippage, a later attempt whose
\* realized price is exactly 1% above the quoted price is being confirmed
C11_Witness ==
  \E o \in OrderIds :
    /\ job[o].pc = "confirmed_s"
    /\ job[o].executed * 100 = job[o].quoted * 1000 * 101
    /\ ledger[o].error = "Slippage too high"

\* C12: a websocket receives only events of emitStatus calls made after it
\* subscribed: subscribing delivers nothing (no replay), every delivery is
\* the event that the running broadcast sends for the socket's order, and a
\* socket that subscribed when the order's row already held confirmed or
\* failed never receives an event.
C12_NoReplayForLateSubscribers ==
  [][\A s \in Sockets :
       /\ (sock[s].readyState = 0 /\ sock'[s].readyState = 1)
            => inbox'[s] = inbox[s]
       /\ inbox'[s] # inbox[s]
            => /\ sock[s].readyState = 1
               /\ sock[s].order \in OrderIds
               /\ Sent(sock[s].order)
               /\ inbox'[s] = lastEvent'[sock[s].order]
               /\ ~sock[s].late]_vars

\* socket s is in the registry's set of order o
Registered(s, o) == o \in DOMAIN orderSockets /\ s \in orderSockets[o]

RegistryOk ==
  /\ DOMAIN orderSockets \subseteq OrderIds
  /\ \A o \in DOMAIN orderSockets :
       /\ orderSockets[o] # {}
       /\ \A s \in orderSockets[o] :
            sock[s].order = o /\ sock[s].readyState \in {1, 3}
  /\ \A s \in Sockets :
       sock[s].readyState = 1 => Registered(s, sock[s].order)

C15_BoundedConcurrency ==
  [][/\ Cardinality({o \in DOMAIN job : job'[o].state = "active"}) <= 10
     /\ \A o \in DOMAIN job :
          (job'[o].state = "active" /\ job'[o] # job[o])
            => /\ job[o].state \in {"waiting", "delayed"}
               /\ Cardinality({q \in DOMAIN job : job[q].state = "active"}) < 10]_vars

\* C15 witness: ten jobs are running and another one waits in the queue
C15_Witness ==
  /\ Cardinality({o \in DOMAIN job : job[o].state = "active"}) = 10
  /\ \E o \in DOMAIN job : job[o].state = "waiting"

\* an UPDATE with payload p has left alone every field of row o that p does
\* not carry, has set the status of row o, and has changed no other row
Framed(o, p) ==
  /\ ledger'[o].status = p.status
  /\ p.dex = "" => ledger'[o].dex = ledger[o].dex
  /\ p.txHash = 0 => ledger'[o].tx_hash = ledger[o].tx_hash
  /\ p.error = "" => ledger'[o].error = ledger[o].error
  /\ p.executedPrice = 0
       => ledger'[o].executed_price = ledger[o].executed_price
  /\ \A q \in OrderIds \ {o} : ledger'[q] = ledger[q]

\* the payload of the emitStatus call the processor of order o is awaiting
WorkerPayload(o) ==
  IF job[o].pc = "routing_w" THEN Payload("routing", "", 0, "", 0)
  ELSE IF job[o].pc = "building_w"
    THEN Payload("building", job[o].dex, 0, "", 0)
  ELSE IF job[o].pc = "submitted_w"
    THEN Payload("submitted", job[o].dex, 0, "", 0)
  ELSE Payload("confirmed", job[o].dex, job[o].tx, "", job[o].executed)

\* C16: the UPDATE of an emitStatus call that passes no dex, txHash, error
\* or executedPrice leaves that field of the order's row as it was, and it
\* changes no field of another order's row; the status of the addressed row
\* is always written.
C16_UpdateFrame ==
  [][\A o \in Orders :
       /\ (post[o] = "emit" /\ post'[o] = "sent")
            => Framed(o, Payload("pending", "", 0, "", 0))
       /\ (job[o].pc \in WritePcs /\ job'[o].pc \in SendPcs)
            => Framed(o, WorkerPayload(o))
       /\ (onFailed[o].pc = "write" /\ onFailed'[o].pc = "send")
            => Framed(o, Payload("failed", "", 0, onFailed[o].error, 0))]_vars

\* C16 witness: a failed UPDATE, which passes only error, was applied to a
\* row that held a dex: the dex is still there, and the row of the other
\* order is as it was
C16_Witness ==
  \E o \in Orders :
    /\ ledger[o].status = "failed"
    /\ ledger[o].dex # ""
    /\ \A q \in OrderIds \ Orders : ledger[q] = OldRow

\* C17: every attempt, retries included, starts at emitStatus routing with
\* no quote and no venue held from an earlier attempt; the quotes are
\* requested only after the routing event of this attempt was broadcast,
\* and the venue is chosen only from the two quotes this attempt received.
C17_RetryRestartsFromRouting ==
  [][\A o \in OrderIds :
       /\ (job[o].state # "active" /\ job'[o].state = "active")
            => /\ job'[o].pc = "routing_w"
               /\ job'[o].raydium = 0 /\ job'[o].meteora = 0
               /\ job'[o].dex = "" /\ job'[o].quoted = 0
       /\ (job[o].pc # "quotes" /\ job'[o].pc = "quotes")
            => /\ job[o].state = "active" /\ job[o].pc = "routing_s"
               /\ lastEvent'[o].status = "routing"
               /\ job'[o].quoted = 0
       /\ (job[o].pc # "building_w" /\ job'[o].pc = "building_w")
            => /\ job[o].pc = "quotes"
               /\ job[o].raydium = 0 /\ job[o].meteora = 0
               /\ job'[o].raydium \in RaydiumPrices
               /\ job'[o].meteora \in MeteoraPrices
       /\ (job[o].state = "active" /\ job'[o].state = "active"
             /\ job[o].quoted # 0)
            => /\ job'[o].raydium = job[o].raydium
               /\ job'[o].meteora = job[o].meteora
               /\ job'[o].dex = job[o].dex]_vars

\* C17 witness: a retry has chosen, from its own quotes, another venue than
\* the one a failed attempt had stored in the row
C17_Witness ==
  \E o \in OrderIds :
    /\ job[o].attemptsMade >= 1
    /\ job[o].pc = "building_w"
    /\ ledger[o].dex # ""
    /\ ledger[o].dex # job[o].dex

\* C18: when a quote call rejects, the attempt ends there with that error:
\* the last event of the attempt is routing, nothing is written or
\* broadcast by the step, no venue is chosen and executeSwap has not been
\* called; and whenever a venue is chosen, both quotes of this attempt are
\* held (the remaining venue is never chosen on its own).
C18_QuoteFailureFailsAttempt ==
  [][\A o \in OrderIds :
       /\ job'[o].pc = "quotes"
            => /\ lastEvent'[o].status = "routing"
               /\ job'[o].dex = "" /\ job'[o].tx = 0 /\ job'[o].executed = 0
       /\ (job[o].pc = "quotes" /\ job'[o].pc # "quotes")
            => \/ /\ job'[o].pc = "building_w"
                  /\ job'[o].raydium \in RaydiumPrices
                  /\ job'[o].meteora \in MeteoraPrices
                  /\ onFailed'[o] = onFailed[o]
               \/ /\ job'[o].state \in {"delayed", "failed"}
                  /\ job'[o].attemptsMade = job[o].attemptsMade + 1
                  /\ job'[o].dex = "" /\ job'[o].tx = 0
                  /\ onFailed'[o].pc = "write"
                  /\ onFailed'[o].error \in {QuoteError(v) : v \in DexName}
                  /\ ledger'[o] = ledger[o]
                  /\ lastEvent'[o] = lastEvent[o]
       /\ job'[o].pc \in {"building_w", "building_s", "submitted_w",
                           "submitted_s", "swap", "check", "confirmed_w",
                           "confirmed_s"}
            => /\ job'[o].raydium \in RaydiumPrices
               /\ job'[o].meteora \in MeteoraPrices]_vars

\* C18 witness: the first attempt ended on meteora's rejected quote call:
\* the order is failed with that error and no venue was ever stored
C18_Witness ==
  \E o \in OrderIds :
    /\ ledger[o].status = "failed"
    /\ ledger[o].error = "meteora_quote_error"
    /\ ledger[o].dex = ""
    /\ lastEvent[o].error = "meteora_quote_error"

\* the job of order o carries a type other than "market"
NonMarket(o) == job[o].type \notin {"", "market"}

\* C19: for a job whose type is not market, an attempt ends either on a
\* rejected UPDATE or, after routing and building were broadcast, on the
\* error "Unsupported order type" thrown before emitStatus submitted:
\* submitted and confirmed are never written or broadcast, executeSwap is
\* never called, the job is retried until 3 attempts were made, and when
\* nothing runs any more and no UPDATE was rejected the last event (and the
\* row, if the order has one) is failed with that message.
C19_NonMarketFailsAfterBuilding ==
  [][\A o \in OrderIds : NonMarket(o)' =>
       /\ job'[o].pc \notin {"submitted_w", "submitted_s", "swap", "check",
                              "confirmed_w", "confirmed_s"}
       /\ job'[o].tx = 0 /\ job'[o].executed = 0
       /\ job'[o].state # "completed"
       /\ lastEvent'[o].status \notin {"submitted", "confirmed"}
       /\ ledger'[o].status \notin {"submitted", "confirmed"}
       /\ (job[o].state = "active" /\ job'[o].state # "active")
            => /\ job'[o].attemptsMade = job[o].attemptsMade + 1
               /\ job'[o].state =
                    IF job'[o].attemptsMade < 3 THEN "delayed" ELSE "failed"
               /\ onFailed'[o].pc = "write"
               /\ \/ /\ dbFailures' = dbFailures + 1
                     /\ onFailed'[o].error = DbError
                  \/ /\ dbFailures' = dbFailures
                     /\ job[o].pc = "building_s"
                     /\ "routing" \in written'[o] \/ ledger[o] = NoRow
                     /\ lastEvent[o].status = "routing"
                     /\ lastEvent'[o].status = "building"
                     /\ lastEvent'[o].dex \in DexName
                     /\ onFailed'[o].error = "Unsupported order type"
       /\ (Quiescent(o)' /\ dbFailures' = 0)
            => /\ job'[o].state = "failed" /\ job'[o].attemptsMade = 3
               /\ lastEvent'[o].status = "failed"
               /\ lastEvent'[o].error = "Unsupported order type"
               /\ ledger'[o] # NoRow
                    => /\ ledger'[o].status = "failed"
                       /\ ledger'[o].error = "Unsupported order type"]_vars

\* C19 witness: a job of type limit was run three times without a rejected
\* UPDATE and the order's row holds failed with the type error
C19_Witness ==
  \E o \in OrderIds :
    /\ NonMarket(o)
    /\ Quiescent(o)
    /\ dbFailures = 0
    /\ job[o].attemptsMade = 3
    /\ ledger[o].status = "failed"
    /\ ledger[o].error = "Unsupported order type"
    /\ lastEvent[o].error = "Unsupported order type"

\* C20: with MockDexRouter.executeSwap the realized price is at most 0.5%
\* off the quoted price, so the slippage check never throws: every attempt
\* in which executeSwap returned goes on to call emitStatus confirmed, and
\* no attempt, row or event ever carries the slippage error.
C20_DefaultSwapNeverSlips ==
  [][\A o \in OrderIds :
       LET q == job[o].quoted * 1000
           r == job[o].executed
           d == IF r >= q THEN r - q ELSE q - r
       IN /\ job[o].pc = "check" => q > 0 /\ d * 200 <= q
          /\ (job[o].pc = "check" /\ job'[o].pc # "check")
               => /\ job'[o].state = "active"
                  /\ job'[o].pc = "confirmed_w"
                  /\ job'[o].executed = r
                  /\ onFailed'[o] = onFailed[o]
          /\ onFailed'[o].error # "Slippage too high"
          /\ ledger'[o].error # "Slippage too high"
          /\ lastEvent'[o].error # "Slippage too high"]_vars

\* C20 witness: a realized price exactly 0.5% below the quoted price has
\* passed the check and confirmed is about to be written
C20_Witness ==
  \E o \in OrderIds :
    /\ job[o].pc = "confirmed_w"
    /\ job[o].executed = job[o].quoted * 995

====
